---- MODULE Spec2Model ----
(***************************************************************************)
(* Model of src/__init__.py: the ComfyUI node HuggingFaceUploadNode and    *)
(* the helper functions it calls.                                          *)
(*                                                                         *)
(* A Python string is a sequence of one-character strings; a fixed piece   *)
(* of message text that is never inspected is kept as one element.  The    *)
(* file system is a set of directories and a set of regular files, each    *)
(* named by its absolute path: a sequence of components, every component   *)
(* a string.  There are no symbolic links, so realpath is normalisation.   *)
(***************************************************************************)
EXTENDS Integers, Sequences, FiniteSets, TLC

VARIABLES
    fs,           \* the file system: [dirs, files], sets of absolute paths
    cwd,          \* the process's working directory (a member of fs.dirs)
    clock,        \* what datetime.now() returns
    remote,       \* the registry: whether the destination exists, its files
    pc,           \* position of the invocation inside upload_folder
    kwargs,       \* names of the keyword arguments the caller passes
    hf_token,     \* argument hf_token
    repo_id,      \* argument repo_id
    folder_path,  \* argument folder_path, as passed
    real_path,    \* folder_path after line 259 rebinds it to find_folder's answer
    zip_name,     \* argument zip_name
    zip_filename, \* local zip_filename (line 264)
    archive,      \* the ZIP file: [opened, entries, ok]
    net,          \* the network calls made so far, in order
    log,          \* the steps of upload_folder run so far, in order
    warnings,     \* the warnings validate_token printed
    result        \* what the call produced: [kind, value]

vars == <<fs, cwd, clock, remote, pc, kwargs, hf_token, repo_id, folder_path,
          real_path, zip_name, zip_filename, archive, net, log, warnings, result>>

\* ------------------------------------------------------------------ bounds
\* number of files and directories the outside world creates
MaxNodes == 4
\* length of the destination identifiers tried
MaxRepoLen == 4

\* ------------------------------------------------------------------ strings
Range(s) == {s[i] : i \in 1..Len(s)}

\* str.startswith
StartsWith(s, pre) ==
    Len(s) >= Len(pre) /\ SubSeq(s, 1, Len(pre)) = pre

\* str.endswith
EndsWith(s, suf) ==
    Len(s) >= Len(suf) /\ SubSeq(s, Len(s) - Len(suf) + 1, Len(s)) = suf

\* str.lower, one character
LowerChar(c) ==
    CASE c = "Z" -> "z"
      [] c = "I" -> "i"
      [] c = "P" -> "p"
      [] c = "N" -> "n"
      [] OTHER -> c

\* str.lower
Lower(s) == [i \in 1..Len(s) |-> LowerChar(s[i])]

Whitespace == {" ", "\t"}

\* str.strip: leading and trailing whitespace removed
RECURSIVE LStrip(_)
LStrip(s) ==
    IF s # <<>> /\ Head(s) \in Whitespace THEN LStrip(Tail(s)) ELSE s

RECURSIVE RStrip(_)
RStrip(s) ==
    IF s # <<>> /\ s[Len(s)] \in Whitespace
    THEN RStrip(SubSeq(s, 1, Len(s) - 1)) ELSE s

Strip(s) == RStrip(LStrip(s))

\* str.split("/"): the pieces between the separators, empty ones included
RECURSIVE Split(_)
Split(s) ==
    LET at == {i \in 1..Len(s) : s[i] = "/"} IN
    IF at = {} THEN <<s>>
    ELSE LET i == CHOOSE j \in at : \A k \in at : j <= k IN
         <<SubSeq(s, 1, i - 1)>> \o Split(SubSeq(s, i + 1, Len(s)))

\* "/".join
RECURSIVE Join(_)
Join(parts) ==
    IF parts = <<>> THEN <<>>
    ELSE IF Len(parts) = 1 THEN parts[1]
    ELSE parts[1] \o <<"/">> \o Join(Tail(parts))

WORKSPACE == <<"w", "o", "r", "k", "s", "p", "a", "c", "e">>
TMP == <<"t", "m", "p">>
DOT == <<".">>
DOTDOT == <<".", ".">>
ZIPEXT == <<".", "z", "i", "p">>

\* ------------------------------------------------------------------ file system
Root == <<>>
Names == {<<"a">>, <<"b">>, WORKSPACE}

Parent(p) == IF p = <<>> THEN <<>> ELSE SubSeq(p, 1, Len(p) - 1)

Exists(f, p) == p \in f.dirs \/ p \in f.files

IsPrefix(p, q) == Len(p) <= Len(q) /\ SubSeq(q, 1, Len(p)) = p

\* the kernel's path walk from directory cur along the components comps
RECURSIVE Walk(_, _, _)
Walk(f, cur, comps) ==
    IF comps = <<>> THEN [ok |-> TRUE, path |-> cur]
    ELSE IF cur \notin f.dirs THEN [ok |-> FALSE, path |-> cur]
    ELSE LET c == Head(comps) IN
         IF c = <<>> \/ c = DOT THEN Walk(f, cur, Tail(comps))
         ELSE IF c = DOTDOT THEN Walk(f, Parent(cur), Tail(comps))
         ELSE IF Exists(f, Append(cur, c))
              THEN Walk(f, Append(cur, c), Tail(comps))
              ELSE [ok |-> FALSE, path |-> cur]

\* stat(path): the empty path names nothing
Stat(f, wd, path) ==
    IF path = <<>> THEN [ok |-> FALSE, path |-> Root]
    ELSE Walk(f, IF Head(path) = "/" THEN Root ELSE wd, Split(path))

\* os.path.isdir
IsDir(f, wd, path) ==
    LET r == Stat(f, wd, path) IN r.ok /\ r.path \in f.dirs

\* the text of an absolute path
PathText(p) == <<"/">> \o Join(p)

\* os.path.realpath of a path that exists
RealPath(f, wd, path) == PathText(Stat(f, wd, path).path)

\* pathlib.Path(text) for an absolute normalised text: its components
RECURSIVE NonEmpty(_)
NonEmpty(parts) ==
    IF parts = <<>> THEN <<>>
    ELSE IF Head(parts) = <<>> THEN NonEmpty(Tail(parts))
    ELSE <<Head(parts)>> \o NonEmpty(Tail(parts))

PathOf(text) == NonEmpty(Split(text))

\* pathlib.Path(text).name
PathName(text) ==
    LET p == PathOf(text) IN IF p = <<>> THEN <<>> ELSE p[Len(p)]

\* ------------------------------------------------------------------ find_folder
\* possible_paths with the root-anchored guess tried after the relative one
possible_paths_relative_first(p) ==
    (IF StartsWith(p, <<"/">>) THEN <<p>> ELSE << p, <<"/">> \o p >>)
    \o << <<".", "/">> \o p,
          <<".", ".", "/">> \o p,
          IF ~StartsWith(p, <<"/">> \o WORKSPACE)
          THEN <<"/">> \o WORKSPACE \o <<"/">> \o p ELSE p >>

\* lines 39-51: the candidate paths, in the order they are tried
possible_paths(p) ==
    (IF StartsWith(p, <<"/">>) THEN <<p>> ELSE << <<"/">> \o p, p >>)
    \o << <<".", "/">> \o p,
          <<".", ".", "/">> \o p,
          IF ~StartsWith(p, <<"/">> \o WORKSPACE)
          THEN <<"/">> \o WORKSPACE \o <<"/">> \o p ELSE p >>

\* lines 55-66: the real path of the first candidate that is a directory
find_folder(f, wd, p) ==
    LET cand == possible_paths(p)
        hits == {i \in 1..Len(cand) : IsDir(f, wd, cand[i])}
    IN  IF hits = {} THEN [found |-> FALSE, path |-> <<>>]
        ELSE LET i == CHOOSE j \in hits : \A k \in hits : j <= k IN
             [found |-> TRUE, path |-> RealPath(f, wd, cand[i])]

\* ------------------------------------------------------------------ create_zip
\* one enumeration of a finite set (the order of a directory scan is not
\* specified; this is one of the orders)
RECURSIVE SeqOf(_)
SeqOf(S) ==
    IF S = {} THEN <<>>
    ELSE LET x == CHOOSE y \in S : TRUE IN <<x>> \o SeqOf(S \ {x})

\* Path.rglob('*'): everything below the folder, at any depth
rglob(f, root) ==
    SeqOf({n \in f.dirs \cup f.files : IsPrefix(root, n) /\ n # root})

\* iterdir that finds every directory empty
iterdir_none(f, d) == {}

\* Path.iterdir(): the children of a directory
iterdir(f, d) == {n \in f.dirs \cup f.files : Len(n) > 0 /\ Parent(n) = d}

\* Path.relative_to
relative_to(n, root) == SubSeq(n, Len(root) + 1, Len(n))

\* lines 86-98: the entries the loop writes, in order; ZipFile.write names a
\* directory's entry with a trailing "/"
RECURSIVE Writes(_, _, _)
Writes(f, root, all) ==
    IF all = <<>> THEN <<>>
    ELSE LET n == Head(all) IN
         (IF n \in f.files
          THEN << Join(relative_to(n, root)) >>
          ELSE IF n \in f.dirs /\ iterdir(f, n) = {}
               THEN << Join(relative_to(n, root)) \o <<"/">> >>
               ELSE <<>>)
         \o Writes(f, root, Tail(all))

\* create_zip without the total_files == 0 return of lines 78-80
create_zip_no_empty_return(f, folder, failAt) ==
    LET w == Writes(f, PathOf(folder), rglob(f, PathOf(folder))) IN
    IF failAt \in 1..Len(w)
    THEN [opened |-> TRUE, entries |-> SubSeq(w, 1, failAt - 1), ok |-> FALSE]
    ELSE [opened |-> TRUE, entries |-> w, ok |-> TRUE]

\* lines 69-108.  failAt = k > 0: the k-th ZipFile.write raises (the file
\* cannot be read, the disk is full); failAt = 0: none does.
create_zip(f, folder, failAt) ==
    LET p_folder_path == PathOf(folder)
        all_files == rglob(f, p_folder_path)
        total_files == Cardinality({i \in 1..Len(all_files) :
                                       all_files[i] \in f.files})
        w == Writes(f, p_folder_path, all_files)
    IN  IF total_files = 0
        THEN [opened |-> FALSE, entries |-> <<>>, ok |-> FALSE]
        ELSE IF failAt \in 1..Len(w)
             THEN [opened |-> TRUE, entries |-> SubSeq(w, 1, failAt - 1),
                   ok |-> FALSE]
             ELSE [opened |-> TRUE, entries |-> w, ok |-> TRUE]

\* ------------------------------------------------------------------ validation
MinTokenLen == 20

\* validate_token that refuses a token without the "hf_" prefix
validate_token_strict(token) ==
    IF token = <<>> \/ ~StartsWith(token, <<"h", "f", "_">>)
    THEN [ok |-> FALSE, warned |-> {}]
    ELSE [ok |-> TRUE,
          warned |-> IF Len(token) < MinTokenLen THEN {"short"} ELSE {}]

\* lines 150-162
validate_token(token) ==
    IF token = <<>> THEN [ok |-> FALSE, warned |-> {}]
    ELSE [ok |-> TRUE,
          warned |-> (IF ~StartsWith(token, <<"h", "f", "_">>)
                      THEN {"prefix"} ELSE {})
                     \cup (IF Len(token) < MinTokenLen
                           THEN {"short"} ELSE {})]

\* validate_repo without the empty-part test of line 176
validate_repo_no_part_test(repo) ==
    IF repo = <<>> THEN FALSE
    ELSE IF "/" \notin Range(repo) THEN FALSE
    ELSE Len(Split(repo)) = 2

\* validate_repo that accepts everything
validate_repo_any(repo) == TRUE

\* lines 165-180
validate_repo(repo) ==
    IF repo = <<>> THEN FALSE
    ELSE IF "/" \notin Range(repo) THEN FALSE
    ELSE LET parts == Split(repo) IN
         IF Len(parts) # 2 \/ parts[1] = <<>> \/ parts[2] = <<>>
         THEN FALSE
         ELSE TRUE

\* ------------------------------------------------------------------ generate_zip_name
Digit(d) == <<"0", "1", "2", "3", "4", "5", "6", "7", "8", "9">>[d + 1]

\* a number in decimal, w digits, zero-padded
RECURSIVE Pad(_, _)
Pad(n, w) == IF w = 0 THEN <<>> ELSE Pad(n \div 10, w - 1) \o <<Digit(n % 10)>>

\* strftime("%Y%m%d_%H%M%S")
strftime(t) ==
    Pad(t.year, 4) \o Pad(t.month, 2) \o Pad(t.day, 2) \o <<"_">>
    \o Pad(t.hour, 2) \o Pad(t.minute, 2) \o Pad(t.second, 2)

\* generate_zip_name whose extension test is case-sensitive
generate_zip_name_case_sensitive(folder, custom_name, now) ==
    LET timestamp == strftime(now) IN
    IF custom_name # <<>> /\ Strip(custom_name) # <<>>
    THEN LET base == IF EndsWith(custom_name, ZIPEXT)
                     THEN SubSeq(custom_name, 1, Len(custom_name) - 4)
                     ELSE custom_name
         IN  base \o <<"_">> \o timestamp \o ZIPEXT
    ELSE PathName(folder) \o <<"_">> \o timestamp \o ZIPEXT

\* lines 183-193
generate_zip_name(folder, custom_name, now) ==
    LET timestamp == strftime(now) IN
    IF custom_name # <<>> /\ Strip(custom_name) # <<>>
    THEN LET base == IF EndsWith(Lower(custom_name), ZIPEXT)
                     THEN SubSeq(custom_name, 1, Len(custom_name) - 4)
                     ELSE custom_name
         IN  base \o <<"_">> \o timestamp \o ZIPEXT
    ELSE PathName(folder) \o <<"_">> \o timestamp \o ZIPEXT

\* ------------------------------------------------------------------ the node
\* lines 201-226: the input names INPUT_TYPES declares as required
RequiredInputs ==
    {"hf_token", "repo_id", "folder_path", "zip_name",
     "trigger_image_1", "trigger_image_2", "trigger_image_3", "trigger_image_4"}

\* line 233: the parameters of upload_folder (self is bound by the method)
Parameters ==
    {"hf_token", "repo_id", "folder_path", "zip_name",
     "trigger_image_1", "trigger_image_2", "trigger_image_3"}

\* Python's argument binding: every parameter is required, no **kwargs
Binds(kw) == kw \subseteq Parameters /\ Parameters \subseteq kw

\* the marker every failure message starts with (U+274C in the source)
MARK == "(X)"

MsgDependencies == <<MARK, " Erro ao instalar dependencias: ", "e">>
MsgToken == <<MARK, " Token invalido">>
MsgRepo == <<MARK, " Repositorio invalido">>
MsgFolder == <<MARK, " Pasta nao encontrada">>
MsgZip == <<MARK, " Falha ao criar ZIP">>
MsgUpload == <<MARK, " Falha no upload">>
MsgProcess == <<MARK, " Erro durante o processo: ", "e">>

\* tempfile.TemporaryDirectory(): a fresh directory below /tmp
TempDir == <<TMP, <<"x">>>>

\* os.path.join(temp_dir, zip_filename)
zip_path(name) == PathText(TempDir) \o <<"/">> \o name

\* os.path.basename
basename(path) == LET parts == Split(path) IN parts[Len(parts)]

\* TemporaryDirectory.__exit__: the directory and all below it are removed
Cleanup(f) ==
    [dirs  |-> {n \in f.dirs : ~IsPrefix(TempDir, n)},
     files |-> {n \in f.files : ~IsPrefix(TempDir, n)}]

\* line 138
commit_message(filename) == <<"Upload automatico: ">> \o filename

\* what the registry's upload_file answers
Url(repo, filename) ==
    <<"https://huggingface.co/">> \o repo \o <<"/blob/main/">> \o filename

NoArchive == [opened |-> FALSE, entries |-> <<>>, ok |-> FALSE]

\* ------------------------------------------------------------------ inputs
T_EMPTY == <<>>
T_SHORT == <<"a", "b", "c">>
T_HF_SHORT == <<"h", "f", "_", "x">>
T_LONG == <<"h", "f", "_">> \o [i \in 1..(MinTokenLen - 3) |-> "x"]
T_LONG_NOPREFIX == [i \in 1..MinTokenLen |-> "x"]
Tokens == {T_EMPTY, T_SHORT, T_HF_SHORT, T_LONG, T_LONG_NOPREFIX}

Repos == UNION {[1..n -> {"u", "/"}] : n \in 0..MaxRepoLen}
R_OK == <<"u", "/", "u">>
R_BAD == <<"u">>

PathInputs ==
    { <<>>, <<"a">>, <<"/", "a">>, <<"a", "/", "b">>,
      <<".", ".", "/", "a">>, <<"/">> \o WORKSPACE \o <<"/", "a">>,
      <<"/">> \o WORKSPACE \o <<"a">> }

ZipNames ==
    { <<>>, <<" ">>, <<"n">>, <<"n">> \o ZIPEXT, <<"n", ".", "Z", "I", "P">>,
      <<"n", ".", "z", "I", "p">>, ZIPEXT, <<"n">> \o ZIPEXT \o ZIPEXT,
      <<"n">> \o ZIPEXT \o <<" ">>, <<"z", "i", "p">>, <<" ", "n">> }

Times ==
    { [year |-> 2024, month |-> 1, day |-> 5,
       hour |-> 9, minute |-> 3, second |-> 7],
      [year |-> 2025, month |-> 12, day |-> 31,
       hour |-> 23, minute |-> 59, second |-> 59] }

Args(t, r, p, z) ==
    [hf_token |-> t, repo_id |-> r, folder_path |-> p, zip_name |-> z]

\* the calls tried on every file system the outside world can build
FolderCalls ==
    {Args(t, r, <<"a">>, <<>>) : t \in {T_EMPTY, T_LONG}, r \in {R_BAD, R_OK}}
    \cup {Args(T_LONG, R_OK, p, z) : p \in PathInputs,
                                     z \in {<<>>}}

\* the calls tried on the one file system of InitDemo
TextCalls ==
    {Args(t, r, <<"/", "a">>, <<>>) : t \in Tokens, r \in Repos}
    \cup {Args(T_LONG, R_OK, p, z) : p \in {<<>>, <<"/", "a">>}, z \in ZipNames}

\* ------------------------------------------------------------------ states
NoResult == <<>>

Blank ==
    /\ pc = "idle"
    /\ cwd = Root
    /\ remote = [seen |-> FALSE, preexisting |-> FALSE, exists |-> FALSE,
                 files |-> {}]
    /\ kwargs = {}
    /\ hf_token = <<>>
    /\ repo_id = <<>>
    /\ folder_path = <<>>
    /\ real_path = <<>>
    /\ zip_name = <<>>
    /\ zip_filename = <<>>
    /\ archive = NoArchive
    /\ net = <<>>
    /\ log = <<>>
    /\ warnings = {}
    /\ result = NoResult

\* before the node runs: an empty file system with /tmp
Init ==
    /\ fs = [dirs |-> {Root, <<TMP>>}, files |-> {}]
    /\ clock = CHOOSE t \in Times : t.year = 2024
    /\ Blank

\* before the node runs: /a holds a file, a directory with a file and an
\* empty directory; /workspace/a and /b/a exist too
InitDemo ==
    /\ fs = [dirs  |-> {Root, <<TMP>>, << <<"a">> >>, << <<"a">>, <<"b">> >>,
                        << <<"a">>, <<"d">> >>, <<WORKSPACE>>,
                        <<WORKSPACE, <<"a">>>>, << <<"b">> >>},
             files |-> {<< <<"a">>, <<"a">> >>, << <<"a">>, <<"b">>, <<"c">> >>,
                        << <<"b">>, <<"a">> >>}]
    /\ clock \in Times
    /\ Blank

UserNodes(f) == (f.dirs \cup f.files) \ {Root, <<TMP>>}

\* The outside world prepares the file system before the node runs.
MkNode ==
    /\ pc = "idle"
    /\ Cardinality(UserNodes(fs)) < MaxNodes
    /\ \E d \in fs.dirs \ {<<TMP>>}, n \in Names, isDir \in BOOLEAN :
          LET p == Append(d, n) IN
          /\ ~Exists(fs, p)
          /\ (n = WORKSPACE) => (d = Root /\ isDir)
          /\ fs' = IF isDir THEN [fs EXCEPT !.dirs = @ \cup {p}]
                            ELSE [fs EXCEPT !.files = @ \cup {p}]
    /\ UNCHANGED <<cwd, clock, remote, pc, kwargs, hf_token, repo_id,
                   folder_path, real_path, zip_name, zip_filename, archive, net, log,
                   warnings, result>>

\* lines 233-237: the caller invokes upload_folder(**kwargs).  The host
\* passes every input INPUT_TYPES declares; a direct caller passes the
\* parameters of the signature.  A call that does not bind raises TypeError
\* before the body runs.
Call(inputs) ==
    /\ pc = "idle"
    /\ \E kw \in {RequiredInputs, Parameters}, a \in inputs :
          /\ kwargs' = kw
          /\ hf_token' = a.hf_token
          /\ repo_id' = a.repo_id
          /\ folder_path' = a.folder_path
          /\ zip_name' = a.zip_name
          /\ pc' = IF Binds(kw) THEN "install_dependencies" ELSE "raised"
    /\ UNCHANGED <<fs, cwd, clock, remote, real_path, zip_filename, archive, net, log,
                   warnings, result>>

CallFolder == Call(FolderCalls)

CallText == Call(TextCalls)

\* lines 243-249 and 25-34: the import succeeds, or pip installs the package
\* over the network, or pip (or the second import) raises
InstallDependencies ==
    /\ pc = "install_dependencies"
    /\ log' = Append(log, "install_dependencies")
    /\ \E outcome \in {"imported", "installed", "failed"} :
          /\ net' = IF outcome = "imported" THEN net
                    ELSE Append(net, [call |-> "pip", arg |-> <<>>])
          /\ IF outcome = "failed"
             THEN /\ result' = <<MsgDependencies>>
                  /\ pc' = "returned"
             ELSE /\ pc' = "validate_token"
                  /\ UNCHANGED result
    /\ UNCHANGED <<fs, cwd, clock, remote, kwargs, hf_token, repo_id,
                   folder_path, real_path, zip_name, zip_filename, archive, warnings>>

\* lines 251-253
ValidateToken ==
    /\ pc = "validate_token"
    /\ log' = Append(log, "validate_token")
    /\ LET v == validate_token(hf_token) IN
          /\ warnings' = v.warned
          /\ IF ~v.ok
             THEN /\ result' = <<MsgToken>>
                  /\ pc' = "returned"
             ELSE /\ pc' = "validate_repo"
                  /\ UNCHANGED result
    /\ UNCHANGED <<fs, cwd, clock, remote, kwargs, hf_token, repo_id,
                   folder_path, real_path, zip_name, zip_filename, archive, net>>

\* lines 255-256
ValidateRepo ==
    /\ pc = "validate_repo"
    /\ log' = Append(log, "validate_repo")
    /\ IF ~validate_repo(repo_id)
       THEN /\ result' = <<MsgRepo>>
            /\ pc' = "returned"
       ELSE /\ pc' = "find_folder"
            /\ UNCHANGED result
    /\ UNCHANGED <<fs, cwd, clock, remote, kwargs, hf_token, repo_id,
                   folder_path, real_path, zip_name, zip_filename, archive, net, warnings>>

\* lines 258-261.  The working directory is whatever directory the process
\* happens to run in; find_folder is the first to look at it.
FindFolder ==
    /\ pc = "find_folder"
    /\ log' = Append(log, "find_folder")
    /\ \E wd \in fs.dirs :
          /\ cwd' = wd
          /\ LET r == find_folder(fs, wd, folder_path) IN
                IF ~r.found \/ r.path = <<>>
                THEN /\ result' = <<MsgFolder>>
                     /\ pc' = "returned"
                     /\ UNCHANGED real_path
                ELSE /\ real_path' = r.path
                     /\ pc' = "generate_zip_name"
                     /\ UNCHANGED result
    /\ UNCHANGED <<fs, clock, remote, kwargs, hf_token, repo_id, folder_path,
                   zip_name, zip_filename, archive, net, warnings>>

\* lines 263-264
GenerateZipName ==
    /\ pc = "generate_zip_name"
    /\ log' = Append(log, "generate_zip_name")
    /\ zip_filename' = generate_zip_name(real_path, zip_name, clock)
    /\ pc' = "TemporaryDirectory"
    /\ UNCHANGED <<fs, cwd, clock, remote, kwargs, hf_token, repo_id,
                   folder_path, real_path, zip_name, archive, net, warnings, result>>

\* lines 273-275 and 296-299: the temporary directory is created, or making
\* it raises and the handler at line 296 reports
TemporaryDirectory ==
    /\ pc = "TemporaryDirectory"
    /\ \E raises \in BOOLEAN :
          IF raises
          THEN /\ result' = <<MsgProcess>>
               /\ pc' = "returned"
               /\ UNCHANGED fs
          ELSE /\ fs' = [fs EXCEPT !.dirs = @ \cup {TempDir}]
               /\ pc' = "create_zip"
               /\ UNCHANGED result
    /\ UNCHANGED <<cwd, clock, remote, kwargs, hf_token, repo_id, folder_path, real_path,
                   zip_name, zip_filename, archive, net, log, warnings>>

\* lines 277-279: create_zip; on failure the result is returned and the
\* temporary directory removed
CreateZip ==
    /\ pc = "create_zip"
    /\ log' = Append(log, "create_zip")
    /\ \E failAt \in 0..Len(Writes(fs, PathOf(real_path),
                                   rglob(fs, PathOf(real_path)))) :
          LET z == create_zip(fs, real_path, failAt)
              made == IF z.opened
                      THEN [fs EXCEPT !.files =
                               @ \cup {Append(TempDir, zip_filename)}]
                      ELSE fs
          IN  /\ archive' = z
              /\ IF ~z.ok
                 THEN /\ result' = <<MsgZip>>
                      /\ pc' = "returned"
                      /\ fs' = Cleanup(made)
                 ELSE /\ pc' = "repo_info"
                      /\ fs' = made
                      /\ UNCHANGED result
    /\ UNCHANGED <<cwd, clock, remote, kwargs, hf_token, repo_id, folder_path, real_path,
                   zip_name, zip_filename, net, warnings>>

\* lines 111-123: upload_to_hf starts; api.repo_info answers, or raises.
\* It raises when the destination is absent, and it can raise when the
\* destination exists (no connection, a token without access to it).
RepoInfo ==
    /\ pc = "repo_info"
    /\ log' = Append(log, "upload_to_hf")
    /\ net' = Append(net, [call |-> "repo_info", arg |-> repo_id])
    /\ \E exists \in BOOLEAN, raises \in BOOLEAN :
          /\ ~exists => raises
          /\ remote' = [seen |-> TRUE, preexisting |-> exists,
                        exists |-> exists, files |-> {}]
          /\ pc' = IF raises THEN "create_repo" ELSE "upload_file"
    /\ UNCHANGED <<fs, cwd, clock, kwargs, hf_token, repo_id, folder_path, real_path,
                   zip_name, zip_filename, archive, warnings, result>>

\* lines 124-126 and 145-147: api.create_repo creates the destination, or
\* raises (it exists already, the token may not create it, no connection);
\* then upload_to_hf returns None and upload_folder reports at line 294
CreateRepo ==
    /\ pc = "create_repo"
    /\ net' = Append(net, [call |-> "create_repo", arg |-> repo_id])
    /\ \E raises \in BOOLEAN :
          /\ remote.exists => raises
          /\ IF raises
             THEN /\ result' = <<MsgUpload>>
                  /\ pc' = "returned"
                  /\ fs' = Cleanup(fs)
                  /\ UNCHANGED remote
             ELSE /\ remote' = [remote EXCEPT !.exists = TRUE]
                  /\ pc' = "upload_file"
                  /\ UNCHANGED <<fs, result>>
    /\ UNCHANGED <<cwd, clock, kwargs, hf_token, repo_id, folder_path, real_path,
                   zip_name, zip_filename, archive, log, warnings>>

\* lines 128-147 and 284-294: upload_file sends the archive and answers
\* with its URL, or raises; upload_folder returns and the temporary
\* directory is removed
UploadFile ==
    /\ pc = "upload_file"
    /\ LET filename == basename(zip_path(zip_filename)) IN
       /\ net' = Append(net, [call |-> "upload_file",
                              arg |-> commit_message(filename)])
       /\ \E raises \in BOOLEAN :
             IF raises
             THEN /\ result' = <<MsgUpload>>
                  /\ UNCHANGED remote
             ELSE /\ result' = <<Url(repo_id, filename)>>
                  /\ remote' = [remote EXCEPT !.files = @ \cup {filename}]
    /\ pc' = "returned"
    /\ fs' = Cleanup(fs)
    /\ UNCHANGED <<cwd, clock, kwargs, hf_token, repo_id, folder_path, real_path,
                   zip_name, zip_filename, archive, log, warnings>>

Steps ==
    \/ InstallDependencies
    \/ ValidateToken
    \/ ValidateRepo
    \/ FindFolder
    \/ GenerateZipName
    \/ TemporaryDirectory
    \/ CreateZip
    \/ RepoInfo
    \/ CreateRepo
    \/ UploadFile

Next == MkNode \/ CallFolder \/ Steps

Spec == Init /\ [][Next]_vars

NextText == CallText \/ Steps

SpecText == InitDemo /\ [][NextText]_vars

\* ------------------------------------------------------------------ properties
Ran(step) == \E i \in 1..Len(log) : log[i] = step

Called(c) == {i \in 1..Len(net) : net[i].call = c}

RegistryCalls ==
    Called("repo_info") \cup Called("create_repo") \cup Called("upload_file")

IsFailure(s) == s # <<>> /\ Head(s) = MARK

\* exactly one "/" with something on both sides of it
WellFormedRepo(r) ==
    /\ r # <<>>
    /\ Cardinality({i \in 1..Len(r) : r[i] = "/"}) = 1
    /\ r[1] # "/"
    /\ r[Len(r)] # "/"

\* the file system create_zip listed: the temporary directory exists and is
\* still empty
ListedFs ==
    [dirs |-> Cleanup(fs).dirs \cup {TempDir}, files |-> Cleanup(fs).files]

SourceRoot == PathOf(real_path)

FilesBelow == {n \in ListedFs.files : IsPrefix(SourceRoot, n)}

EmptyDirsBelow ==
    {d \in ListedFs.dirs :
        /\ IsPrefix(SourceRoot, d) /\ d # SourceRoot
        /\ ~\E m \in ListedFs.dirs \cup ListedFs.files : IsPrefix(d, m) /\ m # d}

\* C1: every invocation of upload_folder ends by returning a 1-tuple whose
\* element is the URL of a successful upload or a message starting with the
\* failure marker.
C1_EveryInvocationReturnsOneString ==
    pc \in {"returned", "raised"} =>
        /\ pc = "returned"
        /\ Len(result) = 1
        /\ \/ IsFailure(result[1])
           \/ /\ result[1] = Url(repo_id, zip_filename)
              /\ zip_filename \in remote.files

\* C2 (as stated): when validate_repo rejects the destination, upload_folder
\* returns the invalid-repository failure and no network call has been made
\* and no archive created.
C2_MalformedRepoReturnsRepoFailureBeforeNetwork ==
    (Ran("validate_repo") /\ ~WellFormedRepo(repo_id)) =>
        /\ result = <<MsgRepo>>
        /\ net = <<>>
        /\ ~archive.opened

\* C2 (amended): validate_repo rejects exactly the identifiers that do not
\* have one "/" with two non-empty parts; once upload_folder reaches
\* validate_repo with a rejected identifier it returns the invalid-repository
\* failure; with such an identifier no registry call is made and no archive
\* or temporary directory is created (the dependency installer may have used
\* the network before).
C2_MalformedRepoRejectedBeforeRegistryAndArchive ==
    /\ Ran("validate_repo") =>
          IF WellFormedRepo(repo_id)
          THEN result # <<MsgRepo>> /\ (pc = "find_folder" \/ Ran("find_folder"))
          ELSE pc = "returned" /\ result = <<MsgRepo>>
    /\ (pc # "idle" /\ ~WellFormedRepo(repo_id)) =>
          /\ RegistryCalls = {}
          /\ ~archive.opened
          /\ ~Ran("find_folder") /\ ~Ran("create_zip")
          /\ Cleanup(fs) = fs

C2_Witness ==
    /\ Ran("validate_repo")
    /\ repo_id = <<"u">>
    /\ result = <<MsgRepo>>
    /\ Called("pip") # {}

\* C3 (as stated): whatever the token, validate_token lets the invocation
\* continue and upload_folder never fails because of the token.
C3_NoTokenIsFatal ==
    Ran("validate_token") =>
        /\ result # <<MsgToken>>
        /\ pc = "validate_repo" \/ Ran("validate_repo")

\* C3 (amended): a non-empty token that is short or lacks the "hf_" prefix
\* only draws a warning and the invocation continues; an empty token is
\* fatal, upload_folder returns the invalid-token failure.
C3_OnlyEmptyTokenIsFatal ==
    Ran("validate_token") =>
        IF hf_token = <<>>
        THEN pc = "returned" /\ result = <<MsgToken>> /\ ~Ran("validate_repo")
        ELSE /\ result # <<MsgToken>>
             /\ pc = "validate_repo" \/ Ran("validate_repo")
             /\ Len(hf_token) < MinTokenLen => "short" \in warnings
             /\ hf_token[1] # "h" => "prefix" \in warnings

C3_Witness ==
    /\ hf_token = T_SHORT
    /\ warnings = {"prefix", "short"}
    /\ pc = "returned"
    /\ result = <<Url(repo_id, zip_filename)>>

C5_EmptyFolderFails ==
    (Ran("create_zip") /\ FilesBelow = {}) =>
        /\ ~archive.opened /\ ~archive.ok /\ archive.entries = <<>>
        /\ pc = "returned"
        /\ result = <<MsgZip>>
        /\ RegistryCalls = {}
        /\ ~Ran("upload_to_hf")
        /\ ~\E n \in fs.files : IsPrefix(TempDir, n)

C5_Witness ==
    /\ Ran("create_zip")
    /\ FilesBelow = {}
    /\ SourceRoot # Root
    /\ \E d \in fs.dirs : IsPrefix(SourceRoot, d) /\ d # SourceRoot
    /\ result = <<MsgZip>>

IsBlank(s) == \A i \in 1..Len(s) : s[i] \in Whitespace

HasZipSuffix(s) ==
    /\ Len(s) >= 4
    /\ s[Len(s) - 3] = "."
    /\ s[Len(s) - 2] \in {"z", "Z"}
    /\ s[Len(s) - 1] \in {"i", "I"}
    /\ s[Len(s)] \in {"p", "P"}

LastComponent(text) ==
    LET at == {i \in 1..Len(text) : text[i] = "/"}
        last == CHOOSE i \in at : \A k \in at : k <= i
    IN  SubSeq(text, last + 1, Len(text))

DigitVal(c) == CHOOSE d \in 0..9 : Digit(d) = c

RECURSIVE Num(_)
Num(ds) ==
    IF ds = <<>> THEN 0
    ELSE 10 * Num(SubSeq(ds, 1, Len(ds) - 1)) + DigitVal(ds[Len(ds)])

IsStamp(ts, t) ==
    /\ Len(ts) = 15
    /\ ts[9] = "_"
    /\ \A i \in (1..15) \ {9} : \E d \in 0..9 : ts[i] = Digit(d)
    /\ Num(SubSeq(ts, 1, 4)) = t.year
    /\ Num(SubSeq(ts, 5, 6)) = t.month
    /\ Num(SubSeq(ts, 7, 8)) = t.day
    /\ Num(SubSeq(ts, 10, 11)) = t.hour
    /\ Num(SubSeq(ts, 12, 13)) = t.minute
    /\ Num(SubSeq(ts, 14, 15)) = t.second

C7_HostCallAccepted ==
    (pc # "idle" /\ kwargs = RequiredInputs) => pc # "raised"

\* C8: create_repo is never called for a destination that exists, and for
\* such a destination upload_to_hf uploads the archive by exactly one
\* upload_file call whose commit message contains the archive's file name.
C8_CreateOnlyIfAbsentThenOneUpload ==
    /\ Called("create_repo") # {} => ~remote.preexisting
    /\ (pc = "returned" /\ Ran("upload_to_hf") /\ remote.preexisting) =>
          /\ Cardinality(Called("upload_file")) = 1
          /\ \A i \in Called("upload_file") : EndsWith(net[i].arg, zip_filename)

StepsInOrder ==
    <<"install_dependencies", "validate_token", "validate_repo", "find_folder",
      "generate_zip_name", "create_zip", "upload_to_hf">>

ClaimedOrder ==
    <<"find_folder", "validate_token", "validate_repo", "create_zip",
      "upload_to_hf">>

Gated ==
    /\ Ran("create_zip") =>
          /\ hf_token # <<>> /\ WellFormedRepo(repo_id)
          /\ SourceRoot \in fs.dirs
    /\ Ran("upload_to_hf") => archive.ok
    /\ \A c \in {"pip", "repo_info", "create_repo", "upload_file"} :
          Cardinality(Called(c)) <= 1

\* C9 (as stated): the steps run in the order resolve folder, validate inputs,
\* build archive, upload; each at most once; the archive only after folder and
\* inputs were accepted, the upload only after the archive was built.
C9_FolderResolvedBeforeValidation ==
    /\ IsPrefix(SelectSeq(log, LAMBDA x : x \in Range(ClaimedOrder)),
                ClaimedOrder)
    /\ Gated

\* C9 (amended): the steps run in the order install dependencies, validate
\* token, validate repository, resolve folder, name the archive, build
\* archive, upload: the inputs are validated before the folder is resolved;
\* each step runs at most once; the archive is built only after inputs and
\* folder were accepted, the upload attempted only after the archive was
\* built.
C9_ValidationBeforeFolder ==
    /\ IsPrefix(log, StepsInOrder)
    /\ Ran("find_folder") => hf_token # <<>> /\ WellFormedRepo(repo_id)
    /\ Gated

C9_Witness ==
    /\ log = StepsInOrder
    /\ pc = "returned"
    /\ result = <<Url(repo_id, zip_filename)>>

HasWorkspacePrefix(p) ==
    /\ Len(p) >= 10
    /\ p[1] = "/"
    /\ SubSeq(p, 2, 10) = WORKSPACE

ClaimedCandidates(p) ==
    IF p # <<>> /\ p[1] = "/"
    THEN << p, <<".", "/">> \o p, <<".", ".", "/">> \o p,
            IF HasWorkspacePrefix(p) THEN p
            ELSE <<"/">> \o WORKSPACE \o <<"/">> \o p >>
    ELSE << <<"/">> \o p, p, <<".", "/">> \o p, <<".", ".", "/">> \o p,
            <<"/">> \o WORKSPACE \o <<"/">> \o p >>

\* C10: find_folder answers None exactly when no candidate is a directory,
\* else the real path of the first candidate that is one; the candidates are
\* [p, ./p, ../p, /workspace/p (p if it starts with /workspace)] for p
\* starting with "/" and [/p, p, ./p, ../p, /workspace/p] otherwise; the
\* empty input resolves to the root.
C10_FirstCandidateWins ==
    Ran("find_folder") =>
        LET c == ClaimedCandidates(folder_path)
            hits == {i \in 1..Len(c) : IsDir(Cleanup(fs), cwd, c[i])}
        IN  /\ IF hits = {}
               THEN pc = "returned" /\ result = <<MsgFolder>> /\ real_path = <<>>
               ELSE /\ result # <<MsgFolder>>
                    /\ \E i \in hits :
                          /\ \A k \in hits : i <= k
                          /\ real_path = RealPath(Cleanup(fs), cwd, c[i])
            /\ folder_path = <<>> => real_path = <<"/">>

C10_Witness ==
    /\ Ran("find_folder")
    /\ folder_path = <<"a">>
    /\ cwd = << <<"b">> >>
    /\ << <<"b">>, <<"a">> >> \in fs.dirs
    /\ << <<"a">> >> \in fs.dirs
    /\ real_path = <<"/", "a">>
====
